---- MODULE Spec2Model ----
(***************************************************************************)
(* A model of the forward model runner's command line entry point          *)
(* (src/src/_ert/forward_model_runner/cli.py: main, _read_jobs_file,       *)
(* _setup_reporters, _report_all_messages, _stop_reporters_and_sigkill)    *)
(* and of the scheduler test helper poll (src/tests/ert/utils.py).         *)
(*                                                                         *)
(* Calls into code outside these files (Reporter.report, Event.stop, the   *)
(* file system, the message generator, the callbacks of poll) are inputs:  *)
(* each call either returns or raises, chosen nondeterministically.        *)
(***************************************************************************)
EXTENDS Integers, Sequences, FiniteSets, TLC

\* ------------------------------------------------------------------ bounds
\* Most messages the generator yields before its closing Finish message.
MaxBody == 2
\* Most SIGTERMs delivered to the process during one run.
MaxSignals == 1

\* --------------------------------------------------------------- constants
JOBS_JSON_RETRY_TIME == 30

VARIABLES
    pc,              \* position of main / _report_all_messages
    run_path,        \* parsed_args.run_path: "None", "exists" or "missing"
    job,             \* parsed_args.job: the step names given on the command line
    cwd,             \* "start" or "run_path" (os.chdir done)
    logging,         \* _setup_logging has run
    attempts,        \* history: what each open() of the jobs file found
    waits,           \* _wait_for_retry calls
    slept,           \* seconds slept in _wait_for_retry
    jobs_data,       \* the decoded jobs file, or NoData
    reporters,       \* the active reporter list (a sequence of reporter records)
    created,         \* ids of the reporters ever constructed
    handlerInstalled,\* signal.signal(SIGTERM, ...) has run
    runnerStarted,   \* job_runner.run(...) generator created
    msg,             \* the message being delivered, or NoMsg
    mi,              \* number of messages taken from the generator
    i,               \* the while loop's index into reporters (0-based)
    reporter,        \* the local variable reporter, or NoRep
    si,              \* _stop_reporters' position in the list (0-based)
    callLog,         \* history: <<reporter id, message number>> per report() call
    raisedLog,       \* history: <<reporter id, message number>> per raising report()
    stopLog,         \* history: [id, site] per stop() call
    logged,          \* history: ids named in a "Removing the reporter" log record
    exc,             \* the exception that ended main, or "none"
    exit_arg,        \* the argument of sys.exit, or "none"
    excOrigin,       \* the call that raised it
    killer,          \* who sent SIGKILL to the process group: "none", "finish", "sigterm"
    sigCount,        \* SIGTERMs delivered so far
    sigLog           \* history: one record per delivered SIGTERM

inputVars == <<run_path, job>>
setupVars == <<cwd, logging, attempts, waits, slept, jobs_data, created,
               handlerInstalled, runnerStarted>>
loopVars  == <<msg, mi, i, reporter, si>>
histVars  == <<callLog, raisedLog, stopLog, logged>>
endVars   == <<exc, exit_arg, excOrigin, killer>>
sigVars   == <<sigCount, sigLog>>
cliVars   == <<pc, inputVars, setupVars, reporters, loopVars, histVars,
               endVars, sigVars>>

    \* ---- poll (tests/ert/utils.py)
VARIABLES
    ppc,             \* position of poll
    expected,        \* the argument expected: a set of realisation indices
    started,         \* a started callback was given
    finished,        \* a finished callback was given
    event_queue,     \* driver.event_queue
    event,           \* the local variable event, or NoEvent
    completed,       \* the local variable completed
    poll_task,       \* "none", "running" or "cancelled"
    pexc,            \* the exception poll is unwinding with, or "none"
    produced,        \* events the driver has put on the queue so far
    taken,           \* history: the events taken from the queue, in order
    cbLog,           \* history: the callback invocations, in order
    cancels,         \* history: poll_task.cancel() calls
    finishes         \* history: driver.finish() calls awaited

pollVars == <<ppc, expected, started, finished, event_queue, event, completed,
              poll_task, pexc, produced, taken, cbLog, cancels, finishes>>

    \* ---- MockZMQServer (tests/ert/utils.py)
VARIABLES
    hpc,             \* position of _handler
    value,           \* self.value: the backpressure mode
    messages,        \* self.messages
    dealer,          \* the local variable dealer, or "-"
    frame,           \* the local variable frame, or NoFrame
    recvLog,         \* history: one record per frame received
    ackLog           \* history: one record per frame sent by the router socket

zmqVars == <<hpc, value, messages, dealer, frame, recvLog, ackLog>>

    \* ---- the Job Runner (spec section 4.1)
VARIABLES
    rpc,             \* position of the runner's generator
    steps,           \* the step definitions of the jobs descriptor
    rk,              \* the number of the step being run
    nrun,            \* Running messages emitted for the step being run
    aborted,         \* a step failure has ended the sequence
    emitted          \* history: the messages yielded, in order

runVars == <<rpc, steps, rk, nrun, aborted, emitted>>

    \* ---- EnsembleSmoother.run_experiment (ert/run_models/ensemble_smoother.py)
VARIABLES
    epc,                  \* position in run_experiment
    restart_arg,          \* the argument restart
    self_restart,         \* self.restart, "unset" before line 77
    random_seed,          \* self.random_seed
    active_realizations,  \* self.active_realizations
    env,                  \* the keys set with set_env_key
    experiment,           \* the id of the experiment created, or "-"
    prior,                \* the prior ensemble, or NoEnsemble
    posterior,            \* the posterior ensemble, or NoEnsemble
    stages,               \* history: the calls made, in order
    eexc                  \* the exception that left run_experiment, or "none"

smoVars == <<epc, restart_arg, self_restart, random_seed, active_realizations,
             env, experiment, prior, posterior, stages, eexc>>

    \* ---- GenDataRFTCSVExportJob.run (gen_data_rft_export.py)
VARIABLES
    gpc,             \* position in run
    case_list,       \* the argument case_list: NoCaseList or the text given
    observations,    \* per case, the keys of ensemble.experiment.observations
    realizations,    \* what get_realization_list_with_responses returns
    cases,           \* the local list cases
    ci,              \* index of the for loop over cases
    obs_keys,        \* the local list obs_keys
    oi,              \* index of the for loop over obs_keys
    case_data,       \* the local list case_data
    data_list,       \* the local list data
    wells,           \* the local set wells
    csv_frame,       \* the local frame, as written by frame.to_csv
    gexc             \* the exception that left run, or "none"

rftVars == <<gpc, case_list, observations, realizations, cases, ci, obs_keys,
             oi, case_data, data_list, wells, csv_frame, gexc>>

vars == <<cliVars, pollVars, zmqVars, runVars, smoVars, rftVars>>

NoData == [experiment_id |-> "-", ens_id |-> "-", ee_token |-> "-",
           dispatch_url |-> "-"]
NoMsg  == [kind |-> "-", success |-> TRUE]
NoRep  == [id |-> 0, kind |-> "-", url |-> "-", token |-> "-"]

\* Values of the jobs file's correlation fields. "None" is a missing key
\* (dict.get gives None), "" an empty string, "v" a non-empty one.
FieldValues == {"None", "", "v"}
Truthy(v) == v \notin {"None", ""}

JobsFiles ==
    [experiment_id : FieldValues, ens_id : FieldValues,
     ee_token : {"None", "v"}, dispatch_url : {"None", "v"}]

\* ------------------------------------------------------- _setup_reporters
Rep(n, k, url, token) == [id |-> n, kind |-> k, url |-> url, token |-> token]

\* Mutant: line 35 is an if, not an elif, so an interactive run also gets the
\* non-interactive reporters.
_setup_reporters_if(is_interactive_run, ens_id, dispatch_url, ee_token, experiment_id) ==
    (IF is_interactive_run THEN <<Rep(1, "Interactive", "-", "-")>> ELSE <<>>)
        \o (IF Truthy(ens_id) /\ experiment_id = "None"
            THEN <<Rep(2, "File", "-", "-"), Rep(3, "Event", dispatch_url, ee_token)>>
            ELSE <<Rep(2, "File", "-", "-")>>)

\* Mutant: line 35 tests ens_id alone.
_setup_reporters_ens_only(is_interactive_run, ens_id, dispatch_url, ee_token, experiment_id) ==
    IF is_interactive_run
    THEN <<Rep(1, "Interactive", "-", "-")>>
    ELSE IF Truthy(ens_id)
         THEN <<Rep(1, "File", "-", "-"), Rep(2, "Event", dispatch_url, ee_token)>>
         ELSE <<Rep(1, "File", "-", "-")>>

_setup_reporters(is_interactive_run, ens_id, dispatch_url, ee_token, experiment_id) ==
    IF is_interactive_run
    THEN <<Rep(1, "Interactive", "-", "-")>>
    ELSE IF Truthy(ens_id) /\ experiment_id = "None"
         THEN <<Rep(1, "File", "-", "-"), Rep(2, "Event", dispatch_url, ee_token)>>
         ELSE <<Rep(1, "File", "-", "-")>>

\* ------------------------------------------------------------------- Init
\* The state of main's variables from line 93, at position p.
CliInit(p) ==
    /\ pc = p
    /\ run_path \in IF p = "idle" THEN {"None"} ELSE {"None", "exists", "missing"}
    /\ job \in IF p = "idle" THEN {<<>>} ELSE {<<>>, <<"step">>}
    /\ cwd = "start"
    /\ logging = FALSE
    /\ attempts = <<>>
    /\ waits = 0
    /\ slept = 0
    /\ jobs_data = NoData
    /\ reporters = <<>>
    /\ created = {}
    /\ handlerInstalled = FALSE
    /\ runnerStarted = FALSE
    /\ msg = NoMsg
    /\ mi = 0
    /\ i = 0
    /\ reporter = NoRep
    /\ si = 0
    /\ callLog = <<>>
    /\ raisedLog = {}
    /\ stopLog = <<>>
    /\ logged = {}
    /\ exc = "none"
    /\ exit_arg = "none"
    /\ excOrigin = "none"
    /\ killer = "none"
    /\ sigCount = 0
    /\ sigLog = <<>>

NoEvent == [type |-> "-", iens |-> -1, returncode |-> -1]

\* poll is not running.
PollIdle ==
    /\ ppc = "idle"
    /\ expected = {}
    /\ started = FALSE
    /\ finished = FALSE
    /\ event_queue = <<>>
    /\ event = NoEvent
    /\ completed = {}
    /\ poll_task = "none"
    /\ pexc = "none"
    /\ produced = 0
    /\ taken = <<>>
    /\ cbLog = <<>>
    /\ cancels = 0
    /\ finishes = 0

NoFrame == <<"bytes", "-">>

\* No MockZMQServer exists.
ZmqIdle ==
    /\ hpc = "idle"
    /\ value = 0
    /\ messages = <<>>
    /\ dealer = "-"
    /\ frame = NoFrame
    /\ recvLog = <<>>
    /\ ackLog = <<>>

\* No runner is being looked at on its own.
RunIdle ==
    /\ rpc = "idle"
    /\ steps = <<>>
    /\ rk = 0
    /\ nrun = 0
    /\ aborted = FALSE
    /\ emitted = <<>>

NoEnsemble == [id |-> "-", name |-> <<"-", 0>>, size |-> 0]

\* No EnsembleSmoother is running.
SmootherIdle ==
    /\ epc = "idle"
    /\ restart_arg = FALSE
    /\ self_restart = "unset"
    /\ random_seed = "None"
    /\ active_realizations = <<>>
    /\ env = {}
    /\ experiment = "-"
    /\ prior = NoEnsemble
    /\ posterior = NoEnsemble
    /\ stages = <<>>
    /\ eexc = "none"

NoCaseList == <<>>

\* No export job is running.
RftIdle ==
    /\ gpc = "idle"
    /\ case_list = NoCaseList
    /\ observations = <<>>
    /\ realizations = <<>>
    /\ cases = <<>>
    /\ ci = 0
    /\ obs_keys = <<>>
    /\ oi = 0
    /\ case_data = <<>>
    /\ data_list = <<>>
    /\ wells = {}
    /\ csv_frame = <<>>
    /\ gexc = "none"

OthersIdle == SmootherIdle /\ RftIdle

Init == CliInit("check_run_path") /\ PollIdle /\ ZmqIdle /\ RunIdle /\ OthersIdle

\* ------------------------------------------------------------------- main
\* Mutant: the os.path.exists test of line 114 is missing.
CheckRunPathNoExit ==
    /\ pc = "check_run_path"
    /\ pc' = "setup_logging"
    /\ cwd' = IF run_path = "None" THEN cwd ELSE "run_path"
    /\ UNCHANGED <<exc, exit_arg, excOrigin>>
    /\ UNCHANGED <<pollVars, zmqVars, runVars, smoVars, rftVars, inputVars, logging, attempts, waits, slept, jobs_data,
                   created, handlerInstalled, runnerStarted, reporters, loopVars,
                   histVars, killer, sigVars>>

\* lines 113-116: a run_path that does not exist ends main with sys.exit(str).
CheckRunPath ==
    /\ pc = "check_run_path"
    /\ IF run_path = "missing"
       THEN /\ pc' = "exited"
            /\ exc' = "SystemExit"
            /\ exit_arg' = "No such directory: run_path"
            /\ excOrigin' = "sys_exit"
            /\ UNCHANGED cwd
       ELSE /\ pc' = "setup_logging"
            /\ cwd' = IF run_path = "None" THEN cwd ELSE "run_path"
            /\ UNCHANGED <<exc, exit_arg, excOrigin>>
    /\ UNCHANGED <<pollVars, zmqVars, runVars, smoVars, rftVars, inputVars, logging, attempts, waits, slept, jobs_data, created,
                   handlerInstalled, runnerStarted, reporters, loopVars,
                   histVars, killer, sigVars>>

\* line 119
SetupLogging ==
    /\ pc = "setup_logging"
    /\ logging' = TRUE
    /\ pc' = "read_jobs_file"
    /\ UNCHANGED <<pollVars, zmqVars, runVars, smoVars, rftVars, inputVars, cwd, attempts, waits, slept, jobs_data, created,
                   handlerInstalled, runnerStarted, reporters, loopVars,
                   histVars, endVars, sigVars>>

\* What one open() + json.load of the jobs file can find.
FileStates == {"absent", "malformed", "ok"}

\* Mutant: json.JSONDecodeError is handled like FileNotFoundError.
ReadAttemptMalformedRetried(retry, found, data) ==
    /\ attempts' = Append(attempts, found)
    /\ CASE found = "ok" ->
              /\ jobs_data' = data
              /\ pc' = "setup_reporters"
              /\ UNCHANGED <<exc, exit_arg, excOrigin>>
         [] found \in {"malformed", "absent"} ->
              IF retry
              THEN /\ pc' = "wait_for_retry"
                   /\ UNCHANGED <<jobs_data, exc, exit_arg, excOrigin>>
              ELSE /\ pc' = "crashed"
                   /\ exc' = IF found = "absent" THEN "FileNotFoundError"
                             ELSE "OSError"
                   /\ excOrigin' = "jobs_file"
                   /\ UNCHANGED <<jobs_data, exit_arg>>

\* Mutant: line 88 calls _read_jobs_file() without retry=False.
ReadAttemptRetryAgain(retry, found, data) ==
    /\ attempts' = Append(attempts, found)
    /\ CASE found = "ok" ->
              /\ jobs_data' = data
              /\ pc' = "setup_reporters"
              /\ UNCHANGED <<exc, exit_arg, excOrigin>>
         [] found = "malformed" ->
              /\ pc' = "crashed"
              /\ exc' = "OSError"
              /\ excOrigin' = "jobs_file"
              /\ UNCHANGED <<jobs_data, exit_arg>>
         [] found = "absent" ->
              /\ pc' = "wait_for_retry"
              /\ UNCHANGED <<jobs_data, exc, exit_arg, excOrigin>>

\* _read_jobs_file(retry), lines 78-90: one attempt. retry is TRUE at
\* "read_jobs_file" and FALSE at "read_jobs_file_retry".
ReadAttempt(retry, found, data) ==
    /\ attempts' = Append(attempts, found)
    /\ CASE found = "ok" ->
              /\ jobs_data' = data
              /\ pc' = "setup_reporters"
              /\ UNCHANGED <<exc, exit_arg, excOrigin>>
         [] found = "malformed" ->
              /\ pc' = "crashed"
              /\ exc' = "OSError"
              /\ excOrigin' = "jobs_file"
              /\ UNCHANGED <<jobs_data, exit_arg>>
         [] found = "absent" ->
              IF retry
              THEN /\ pc' = "wait_for_retry"
                   /\ UNCHANGED <<jobs_data, exc, exit_arg, excOrigin>>
              ELSE /\ pc' = "crashed"
                   /\ exc' = "FileNotFoundError"
                   /\ excOrigin' = "jobs_file"
                   /\ UNCHANGED <<jobs_data, exit_arg>>

ReadJobsFile ==
    /\ pc = "read_jobs_file"
    /\ \E found \in FileStates, data \in JobsFiles : ReadAttempt(TRUE, found, data)
    /\ UNCHANGED <<pollVars, zmqVars, runVars, smoVars, rftVars, inputVars, cwd, logging, waits, slept, created,
                   handlerInstalled, runnerStarted, reporters, loopVars,
                   histVars, killer, sigVars>>

\* lines 74-75 and 87
WaitForRetry ==
    /\ pc = "wait_for_retry"
    /\ waits' = waits + 1
    /\ slept' = slept + JOBS_JSON_RETRY_TIME
    /\ pc' = "read_jobs_file_retry"
    /\ UNCHANGED <<pollVars, zmqVars, runVars, smoVars, rftVars, inputVars, cwd, logging, attempts, jobs_data, created,
                   handlerInstalled, runnerStarted, reporters, loopVars,
                   histVars, endVars, sigVars>>

\* line 88
ReadJobsFileRetry ==
    /\ pc = "read_jobs_file_retry"
    /\ \E found \in FileStates, data \in JobsFiles : ReadAttempt(FALSE, found, data)
    /\ UNCHANGED <<pollVars, zmqVars, runVars, smoVars, rftVars, inputVars, cwd, logging, waits, slept, created,
                   handlerInstalled, runnerStarted, reporters, loopVars,
                   histVars, killer, sigVars>>

\* lines 123-135
SetupReporters ==
    /\ pc = "setup_reporters"
    /\ reporters' = _setup_reporters(Len(job) > 0, jobs_data.ens_id,
                                     jobs_data.dispatch_url, jobs_data.ee_token,
                                     jobs_data.experiment_id)
    /\ created' = {reporters'[n].id : n \in 1..Len(reporters')}
    /\ pc' = "install_handler"
    /\ UNCHANGED <<pollVars, zmqVars, runVars, smoVars, rftVars, inputVars, cwd, logging, attempts, waits, slept, jobs_data,
                   handlerInstalled, runnerStarted, loopVars, histVars,
                   endVars, sigVars>>

\* lines 137-139: the runner is constructed, the SIGTERM handler installed and
\* the (lazy) message generator created.
InstallHandler ==
    /\ pc = "install_handler"
    /\ handlerInstalled' = TRUE
    /\ runnerStarted' = TRUE
    /\ pc' = "next_msg"
    /\ UNCHANGED <<pollVars, zmqVars, runVars, smoVars, rftVars, inputVars, cwd, logging, attempts, waits, slept, jobs_data,
                   created, reporters, loopVars, histVars, endVars, sigVars>>

\* --------------------------------------------------- the message generator
BodyKinds == {"Start", "Running", "Exited"}

\* What job_runner.run(...) can yield next: a step message while fewer than
\* MaxBody have been yielded, or the closing Finish (success or not).
NextMessages ==
    {[kind |-> k, success |-> TRUE] : k \in IF mi < MaxBody THEN BodyKinds ELSE {}}
        \cup {[kind |-> "Finish", success |-> s] : s \in BOOLEAN}

\* ---------------------------------------------------- _report_all_messages
\* Mutant: del reporters[0] instead of del reporters[i].
RemoveAtFirst(seq, n) == Tail(seq)

RemoveAt(seq, n) == SubSeq(seq, 1, n - 1) \o SubSeq(seq, n + 1, Len(seq))

\* lines 145-147: the for statement takes the next message; the generator is
\* exhausted once it has yielded Finish, and main returns.
NextMsg ==
    /\ pc = "next_msg"
    /\ IF msg.kind = "Finish"
       THEN /\ pc' = "done"
            /\ UNCHANGED loopVars
       ELSE /\ \E m \in NextMessages : msg' = m
            /\ mi' = mi + 1
            /\ i' = 0
            /\ pc' = "while"
            /\ UNCHANGED <<reporter, si>>
    /\ UNCHANGED <<pollVars, zmqVars, runVars, smoVars, rftVars, inputVars, setupVars, reporters, histVars, endVars, sigVars>>

\* lines 148-151: the loop test, and the start of reporter.report(msg).
While ==
    /\ pc = "while"
    /\ IF i < Len(reporters)
       THEN /\ reporter' = reporters[i + 1]
            /\ callLog' = Append(callLog, <<reporters[i + 1].id, mi>>)
            /\ pc' = "report"
       ELSE /\ pc' = "finish_check"
            /\ UNCHANGED <<reporter, callLog>>
    /\ UNCHANGED <<pollVars, zmqVars, runVars, smoVars, rftVars, inputVars, setupVars, reporters, msg, mi, i, si, raisedLog,
                   stopLog, logged, endVars, sigVars>>

\* lines 151-153: report() returns (i += 1) or raises (caught at line 153).
\* Mutant: the i += 1 of line 152 is missing.
ReportReturnsNoAdvance ==
    /\ i' = i
    /\ pc' = "while"
    /\ UNCHANGED raisedLog

ReportReturns ==
    /\ i' = i + 1
    /\ pc' = "while"
    /\ UNCHANGED raisedLog

ReportRaises ==
    /\ raisedLog' = raisedLog \cup {<<reporter.id, mi>>}
    /\ pc' = "except_del"
    /\ UNCHANGED i

Report ==
    /\ pc = "report"
    /\ \/ ReportReturns
       \/ ReportRaises
    /\ UNCHANGED <<pollVars, zmqVars, runVars, smoVars, rftVars, inputVars, setupVars, reporters, msg, mi, reporter, si,
                   callLog, stopLog, logged, endVars, sigVars>>

\* lines 155-156: del reporters[i], then the isinstance test.
AfterDel(r) == IF r.kind = "Event" THEN "except_stop" ELSE "except_log"

ExceptDel ==
    /\ pc = "except_del"
    /\ reporters' = RemoveAt(reporters, i + 1)
    /\ pc' = AfterDel(reporter)
    /\ UNCHANGED <<pollVars, zmqVars, runVars, smoVars, rftVars, inputVars, setupVars, loopVars, histVars, endVars, sigVars>>

\* line 157: reporter.stop() is entered ...
ExceptStop ==
    /\ pc = "except_stop"
    /\ stopLog' = Append(stopLog, [id |-> reporter.id, site |-> "remove"])
    /\ pc' = "in_remove_stop"
    /\ UNCHANGED <<pollVars, zmqVars, runVars, smoVars, rftVars, inputVars, setupVars, reporters, loopVars, callLog,
                   raisedLog, logged, endVars, sigVars>>

\* ... and returns, or raises: contextlib.suppress(Exception) (line 154) then
\* leaves the with block, skipping the log call.
\* Mutant: no contextlib.suppress around line 157.
AfterRemoveStopUnsuppressed(raises) == IF raises THEN "crashed" ELSE "except_log"

AfterRemoveStop(raises) == IF raises THEN "while" ELSE "except_log"

InRemoveStop ==
    /\ pc = "in_remove_stop"
    /\ \E raises \in BOOLEAN : pc' = AfterRemoveStop(raises)
    /\ UNCHANGED <<pollVars, zmqVars, runVars, smoVars, rftVars, inputVars, setupVars, reporters, loopVars, histVars,
                   endVars, sigVars>>

\* lines 158-161
ExceptLog ==
    /\ pc = "except_log"
    /\ logged' = logged \cup {reporter.id}
    /\ pc' = "while"
    /\ UNCHANGED <<pollVars, zmqVars, runVars, smoVars, rftVars, inputVars, setupVars, reporters, loopVars, callLog,
                   raisedLog, stopLog, endVars, sigVars>>

\* Mutant: the test of line 162 without "and not msg.success()".
IsFatalFinishAny(m) == m.kind = "Finish"

\* Mutant: the test of line 162 without its "not".
IsFatalFinishOnSuccess(m) == m.kind = "Finish" /\ m.success

\* line 162
IsFatalFinish(m) == m.kind = "Finish" /\ ~m.success

FinishCheck ==
    /\ pc = "finish_check"
    /\ IF IsFatalFinish(msg)
       THEN /\ pc' = "stop_reporters"
            /\ si' = 0
       ELSE /\ pc' = "next_msg"
            /\ UNCHANGED si
    /\ UNCHANGED <<pollVars, zmqVars, runVars, smoVars, rftVars, inputVars, setupVars, reporters, msg, mi, i, reporter,
                   histVars, endVars, sigVars>>

\* ---------------------------------------------- _stop_reporters_and_sigkill
\* lines 172-175, called from line 163: one step of the for loop.
NeedsStop(r) == r.kind = "Event"

StopReporters ==
    /\ pc = "stop_reporters"
    /\ IF si < Len(reporters)
       THEN IF NeedsStop(reporters[si + 1])
            THEN /\ stopLog' = Append(stopLog, [id |-> reporters[si + 1].id,
                                                 site |-> "finish"])
                 /\ pc' = "in_shutdown_stop"
                 /\ UNCHANGED si
            ELSE /\ si' = si + 1
                 /\ UNCHANGED <<pc, stopLog>>
       ELSE /\ pc' = "sigkill"
            /\ UNCHANGED <<si, stopLog>>
    /\ UNCHANGED <<pollVars, zmqVars, runVars, smoVars, rftVars, inputVars, setupVars, reporters, msg, mi, i, reporter,
                   callLog, raisedLog, logged, endVars, sigVars>>

\* stop() called from _stop_reporters returns, or raises: nothing catches it
\* there, so it leaves _report_all_messages and main.
InShutdownStop ==
    /\ pc = "in_shutdown_stop"
    /\ \/ /\ si' = si + 1
          /\ pc' = "stop_reporters"
          /\ UNCHANGED <<exc, exit_arg, excOrigin>>
       \/ /\ pc' = "crashed"
          /\ exc' = "StopError"
          /\ excOrigin' = "shutdown_stop"
          /\ UNCHANGED <<si, exit_arg>>
    /\ UNCHANGED <<pollVars, zmqVars, runVars, smoVars, rftVars, inputVars, setupVars, reporters, msg, mi, i, reporter,
                   histVars, killer, sigVars>>

\* lines 168-169
Sigkill ==
    /\ pc = "sigkill"
    /\ killer' = "finish"
    /\ pc' = "killed"
    /\ UNCHANGED <<pollVars, zmqVars, runVars, smoVars, rftVars, inputVars, setupVars, reporters, loopVars, histVars, exc,
                   exit_arg, excOrigin, sigVars>>

\* ----------------------------------------------------------------- SIGTERM
Terminal == {"exited", "crashed", "done", "killed", "terminated"}

\* The reporters of a list that _stop_reporters calls stop() on, in order.
\* Mutant: the handler kills without stopping any reporter.
ToStopNone(seq) == <<>>

ToStop(seq) == SelectSeq(seq, NeedsStop)

\* Where an exception raised by the handler lands in the interrupted code:
\* inside the try of line 150 it is caught by line 153, inside the with block
\* of line 154 it is suppressed, anywhere else it leaves main.
Unwind(p) ==
    CASE p = "report" -> "except_del"
      [] p \in {"except_del", "except_stop", "in_remove_stop", "except_log"} -> "while"
      [] OTHER -> "crashed"

\* A SIGTERM arrives. Before line 138 has run the default action ends the
\* process. Afterwards the handler runs _stop_reporters_and_sigkill(reporters)
\* in the main thread, between two steps of the interrupted code: the first n
\* stop() calls return; either all did and the process group is killed, or the
\* next one raises into the interrupted code.
SigTerm ==
    /\ pc \notin Terminal
    /\ sigCount < MaxSignals
    /\ sigCount' = sigCount + 1
    /\ IF ~handlerInstalled
       THEN /\ pc' = "terminated"
            /\ sigLog' = Append(sigLog, [at |-> pc, outcome |-> "default",
                                         active |-> reporters])
            /\ UNCHANGED <<stopLog, raisedLog, endVars>>
       ELSE \E n \in 0..Len(ToStop(reporters)) :
              LET all == ToStop(reporters)
                  called == SubSeq(all, 1, IF n < Len(all) THEN n + 1 ELSE n)
                  stops == [k \in 1..Len(called) |->
                               [id |-> called[k].id, site |-> "sigterm"]]
              IN /\ stopLog' = stopLog \o stops
                 /\ IF n = Len(all)
                    THEN /\ killer' = "sigterm"
                         /\ pc' = "killed"
                         /\ sigLog' = Append(sigLog,
                                [at |-> pc, outcome |-> "shutdown",
                                 active |-> reporters])
                         /\ UNCHANGED <<raisedLog, exc, exit_arg, excOrigin>>
                    ELSE /\ pc' = Unwind(pc)
                         /\ sigLog' = Append(sigLog,
                                [at |-> pc, outcome |-> "stop_raised",
                                 active |-> reporters])
                         /\ raisedLog' = IF pc = "report"
                                         THEN raisedLog \cup {<<reporter.id, mi>>}
                                         ELSE raisedLog
                         /\ exc' = IF Unwind(pc) = "crashed" THEN "StopError" ELSE exc
                         /\ excOrigin' = IF Unwind(pc) = "crashed"
                                         THEN "handler_stop" ELSE excOrigin
                         /\ UNCHANGED <<killer, exit_arg>>
    /\ UNCHANGED <<pollVars, zmqVars, runVars, smoVars, rftVars, inputVars, setupVars, reporters, loopVars, callLog, logged>>

\* -------------------------------------------------------------------- poll
\* The realisation indices and return codes of the events the driver puts.
Iens == {0, 1}
Returncodes == {0, 1}
\* Most events the driver puts on the queue.
MaxEvents == 3

StartedEvent(n) == [type |-> "Started", iens |-> n, returncode |-> -1]
FinishedEvent(n, rc) == [type |-> "Finished", iens |-> n, returncode |-> rc]
Events ==
    {StartedEvent(n) : n \in Iens}
        \cup {FinishedEvent(n, rc) : n \in Iens, rc \in Returncodes}

\* poll(driver, expected, started=..., finished=...) is called.
PollInit ==
    /\ ppc = "create_task"
    /\ expected \in SUBSET Iens
    /\ started \in BOOLEAN
    /\ finished \in BOOLEAN
    /\ event_queue = <<>>
    /\ event = NoEvent
    /\ completed = {}
    /\ poll_task = "none"
    /\ pexc = "none"
    /\ produced = 0
    /\ taken = <<>>
    /\ cbLog = <<>>
    /\ cancels = 0
    /\ finishes = 0

InitPoll == CliInit("idle") /\ PollInit /\ ZmqIdle /\ RunIdle /\ OthersIdle

\* The driver puts an event on its queue (before, during or after poll).
DriverPut ==
    /\ ppc # "idle"
    /\ produced < MaxEvents
    /\ \E e \in Events : event_queue' = Append(event_queue, e)
    /\ produced' = produced + 1
    /\ UNCHANGED <<cliVars, zmqVars, runVars, smoVars, rftVars, ppc, expected, started, finished, event, completed,
                   poll_task, pexc, taken, cbLog, cancels, finishes>>

\* lines 156-157
CreateTask ==
    /\ ppc = "create_task"
    /\ poll_task' = "running"
    /\ completed' = {}
    /\ ppc' = "get"
    /\ UNCHANGED <<cliVars, zmqVars, runVars, smoVars, rftVars, expected, started, finished, event_queue, event,
                   pexc, produced, taken, cbLog, cancels, finishes>>

\* Mutant: completed.add (line 167) sits under the if of line 165.
DispatchAddUnderIf(e) ==
    CASE e.type = "Started" -> IF started THEN "started_cb" ELSE "get"
      [] e.type = "Finished" -> IF finished THEN "finished_cb" ELSE "get"
      [] OTHER -> "get"

\* lines 161-166: where an event taken from the queue is handled.
Dispatch(e) ==
    CASE e.type = "Started" -> IF started THEN "started_cb" ELSE "get"
      [] e.type = "Finished" -> IF finished THEN "finished_cb" ELSE "add"
      [] OTHER -> "get"

\* line 160: the await returns the queue's oldest event (it blocks on an empty
\* queue), or raises.
Get ==
    /\ ppc = "get"
    /\ \/ /\ event_queue # <<>>
          /\ event' = Head(event_queue)
          /\ event_queue' = Tail(event_queue)
          /\ taken' = Append(taken, Head(event_queue))
          /\ ppc' = Dispatch(Head(event_queue))
          /\ UNCHANGED pexc
       \/ /\ pexc' = "get"
          /\ ppc' = "finally"
          /\ UNCHANGED <<event, event_queue, taken>>
    /\ UNCHANGED <<cliVars, zmqVars, runVars, smoVars, rftVars, expected, started, finished, completed, poll_task,
                   produced, cbLog, cancels, finishes>>

\* line 163: await started(event.iens) returns or raises.
StartedCb ==
    /\ ppc = "started_cb"
    /\ cbLog' = Append(cbLog, [cb |-> "started", iens |-> event.iens,
                               returncode |-> -1])
    /\ \/ /\ ppc' = "get"
          /\ UNCHANGED pexc
       \/ /\ pexc' = "callback"
          /\ ppc' = "finally"
    /\ UNCHANGED <<cliVars, zmqVars, runVars, smoVars, rftVars, expected, started, finished, event_queue, event,
                   completed, poll_task, produced, taken, cancels, finishes>>

\* line 166: await finished(event.iens, event.returncode) returns or raises.
FinishedCb ==
    /\ ppc = "finished_cb"
    /\ cbLog' = Append(cbLog, [cb |-> "finished", iens |-> event.iens,
                               returncode |-> event.returncode])
    /\ \/ /\ ppc' = "add"
          /\ UNCHANGED pexc
       \/ /\ pexc' = "callback"
          /\ ppc' = "finally"
    /\ UNCHANGED <<cliVars, zmqVars, runVars, smoVars, rftVars, expected, started, finished, event_queue, event,
                   completed, poll_task, produced, taken, cancels, finishes>>

\* Mutant: the exit test is completed <= expected.
AllDoneSubset(done, want) == done \subseteq want

\* line 168: the loop's exit test.
AllDone(done, want) == done = want

\* lines 167-169
Add ==
    /\ ppc = "add"
    /\ completed' = completed \cup {event.iens}
    /\ ppc' = IF AllDone(completed', expected) THEN "finally" ELSE "get"
    /\ UNCHANGED <<cliVars, zmqVars, runVars, smoVars, rftVars, expected, started, finished, event_queue, event,
                   poll_task, pexc, produced, taken, cbLog, cancels, finishes>>

\* Mutant: poll_task.cancel() (line 171) is missing.
FinallyNoCancel ==
    /\ ppc = "finally"
    /\ ppc' = "finish"
    /\ UNCHANGED <<cliVars, zmqVars, runVars, smoVars, rftVars, expected, started, finished, event_queue, event,
                   completed, poll_task, pexc, produced, taken, cbLog, cancels,
                   finishes>>

\* line 171
Finally ==
    /\ ppc = "finally"
    /\ poll_task' = "cancelled"
    /\ cancels' = cancels + 1
    /\ ppc' = "finish"
    /\ UNCHANGED <<cliVars, zmqVars, runVars, smoVars, rftVars, expected, started, finished, event_queue, event,
                   completed, pexc, produced, taken, cbLog, finishes>>

\* line 172, then poll returns or re-raises.
Finish ==
    /\ ppc = "finish"
    /\ finishes' = finishes + 1
    /\ ppc' = IF pexc = "none" THEN "returned" ELSE "raised"
    /\ UNCHANGED <<cliVars, zmqVars, runVars, smoVars, rftVars, expected, started, finished, event_queue, event,
                   completed, poll_task, pexc, produced, taken, cbLog, cancels>>

PollStep ==
    \/ CreateTask
    \/ Get
    \/ StartedCb
    \/ FinishedCb
    \/ Add
    \/ Finally
    \/ Finish

NextPoll ==
    \/ DriverPut
    \/ PollStep

\* ----------------------------------------------------------- MockZMQServer
\* Frames are byte strings; what is appended to self.messages is a str.
Bytes(t) == <<"bytes", t>>
Decode(b) == <<"str", b[2]>>
CONNECT_MSG == Bytes("CONNECT")
DISCONNECT_MSG == Bytes("DISCONNECT")
ACK_MSG == Bytes("ACK")
Handshake == {CONNECT_MSG, DISCONNECT_MSG}
DataFrames == {Bytes("a"), Bytes("b")}
Dealers == {"d1", "d2"}
Modes == {0, 1, 2}
\* Most frames the router socket receives.
MaxFrames == 2

\* lines 65-76 and 104-109: the server is constructed with a mode and its
\* handler task started.
ZmqInit ==
    /\ hpc = "recv"
    /\ value \in Modes
    /\ messages = <<>>
    /\ dealer = "-"
    /\ frame = NoFrame
    /\ recvLog = <<>>
    /\ ackLog = <<>>

InitZmq == CliInit("idle") /\ PollIdle /\ ZmqInit /\ RunIdle /\ OthersIdle

\* lines 116-117: signal(value), called from the test's thread at any time.
Signal ==
    /\ hpc \in {"recv", "ack", "record"}
    /\ \E v \in Modes : value' = v
    /\ value' # value
    /\ UNCHANGED <<cliVars, pollVars, runVars, smoVars, rftVars, hpc, messages, dealer, frame,
                   recvLog, ackLog>>

\* line 122: a frame of some sender arrives, first sent or retransmitted.
HRecv ==
    /\ hpc = "recv"
    /\ Len(recvLog) < MaxFrames
    /\ \E d \in Dealers, f \in Handshake \cup DataFrames :
          /\ dealer' = d
          /\ frame' = f
          /\ recvLog' = Append(recvLog, [dealer |-> d, frame |-> f,
                                         vAck |-> -1, vRec |-> -1])
    /\ hpc' = "ack"
    /\ UNCHANGED <<cliVars, pollVars, runVars, smoVars, rftVars, value, messages, ackLog>>

\* Mutant: the ack test is self.value == 0 alone.
ShouldAckModeOnly(f, v) == v = 0

\* line 123
ShouldAck(f, v) == f \in Handshake \/ v = 0

\* lines 123-124. The send of a ROUTER socket completes without suspending
\* the task, so it is no cancellation point.
HAck ==
    /\ hpc = "ack"
    /\ ackLog' = IF ShouldAck(frame, value)
                 THEN Append(ackLog, [to |-> dealer, frame |-> ACK_MSG,
                                      for |-> Len(recvLog)])
                 ELSE ackLog
    /\ recvLog' = [recvLog EXCEPT ![Len(recvLog)].vAck = value]
    /\ hpc' = "record"
    /\ UNCHANGED <<cliVars, pollVars, runVars, smoVars, rftVars, value, messages, dealer, frame>>

\* line 125
ShouldRecord(f, v) == f \notin Handshake /\ v # 1

\* Mutant: a frame already recorded is not recorded again.
RecordDedup(msgs, f) ==
    IF \E k \in 1..Len(msgs) : msgs[k] = Decode(f) THEN msgs
    ELSE Append(msgs, Decode(f))

\* line 126
Record(msgs, f) == Append(msgs, Decode(f))

\* lines 125-126
HRecord ==
    /\ hpc = "record"
    /\ messages' = IF ShouldRecord(frame, value) THEN Record(messages, frame)
                   ELSE messages
    /\ recvLog' = [recvLog EXCEPT ![Len(recvLog)].vRec = value]
    /\ hpc' = "recv"
    /\ UNCHANGED <<cliVars, pollVars, runVars, smoVars, rftVars, value, dealer, frame, ackLog>>

\* lines 127-128: the handler task is cancelled while it awaits a frame.
HCancel ==
    /\ hpc = "recv"
    /\ hpc' = "cancelled"
    /\ UNCHANGED <<cliVars, pollVars, runVars, smoVars, rftVars, value, messages, dealer, frame,
                   recvLog, ackLog>>

NextZmq ==
    \/ Signal
    \/ HRecv
    \/ HAck
    \/ HRecord
    \/ HCancel

\* ------------------------------------------------------------ the Job Runner
\* ForwardModelRunner.run, as section 4.1 of the specification describes it.
\* Most steps in a jobs descriptor.
MaxSteps == 2
\* Most Running messages per step.
MaxRunning == 1

Outcomes == {"exit0", "exit_nonzero", "spawn_error"}
StepDefs == [required : BOOLEAN, outcome : Outcomes]
Descriptors == UNION {[1..n -> StepDefs] : n \in 0..MaxSteps}

StartMsg(k) == [kind |-> "Start", step |-> k, code |-> 0, success |-> TRUE]
RunningMsg(k) == [kind |-> "Running", step |-> k, code |-> 0, success |-> TRUE]
ExitedMsg(k, c) == [kind |-> "Exited", step |-> k, code |-> c,
                    success |-> (c = 0)]
FinishMsg(ok) == [kind |-> "Finish", step |-> 0, code |-> 0, success |-> ok]

\* The exit code of a step that runs, and the synthetic code of one that
\* cannot be spawned.
ExitCodeOf(st) ==
    CASE st.outcome = "exit0" -> 0
      [] st.outcome = "exit_nonzero" -> 1
      [] st.outcome = "spawn_error" -> 127

\* A run over all the steps of a descriptor, no filter.
RunInit ==
    /\ rpc = "next"
    /\ steps \in Descriptors
    /\ rk = 1
    /\ nrun = 0
    /\ aborted = FALSE
    /\ emitted = <<>>

InitRun == CliInit("idle") /\ PollIdle /\ ZmqIdle /\ RunInit /\ OthersIdle

\* A required step that exits non-zero aborts the remaining sequence, and so
\* does any step that cannot be spawned.
Aborts(st) ==
    \/ st.outcome = "spawn_error"
    \/ st.required /\ ExitCodeOf(st) # 0

\* Mutant: nothing is emitted when the process exits.
ExitedOfNone(em, k, st) == em

\* The terminal status of step k.
ExitedOf(em, k, st) == Append(em, ExitedMsg(k, ExitCodeOf(st)))

\* success = every required step was attempted and exited 0; a step treated
\* as a required-step failure makes it false as well.
Success ==
    /\ ~aborted
    /\ \A j \in 1..Len(steps) :
          steps[j].required =>
              \E m \in 1..Len(emitted) : emitted[m] = ExitedMsg(j, 0)

\* Step 2: emit Start for the next selected step.
RunStart ==
    /\ rpc = "next"
    /\ ~aborted
    /\ rk <= Len(steps)
    /\ emitted' = Append(emitted, StartMsg(rk))
    /\ rpc' = "spawn"
    /\ UNCHANGED <<cliVars, pollVars, zmqVars, smoVars, rftVars, steps, rk, nrun, aborted>>

\* The subprocess is spawned, or cannot be: then Exited with the synthetic
\* code is emitted at once.
RunSpawn ==
    /\ rpc = "spawn"
    /\ IF steps[rk].outcome = "spawn_error"
       THEN /\ emitted' = ExitedOf(emitted, rk, steps[rk])
            /\ aborted' = Aborts(steps[rk])
            /\ rk' = rk + 1
            /\ rpc' = "next"
       ELSE /\ rpc' = "running"
            /\ UNCHANGED <<emitted, aborted, rk>>
    /\ UNCHANGED <<cliVars, pollVars, zmqVars, smoVars, rftVars, steps, nrun>>

\* The sampler emits a Running message while the subprocess runs.
RunSample ==
    /\ rpc = "running"
    /\ nrun < MaxRunning
    /\ emitted' = Append(emitted, RunningMsg(rk))
    /\ nrun' = nrun + 1
    /\ UNCHANGED <<cliVars, pollVars, zmqVars, smoVars, rftVars, rpc, steps, rk, aborted>>

\* The subprocess exits: Exited with its returncode.
RunExit ==
    /\ rpc = "running"
    /\ emitted' = ExitedOf(emitted, rk, steps[rk])
    /\ aborted' = Aborts(steps[rk])
    /\ rk' = rk + 1
    /\ nrun' = 0
    /\ rpc' = "next"
    /\ UNCHANGED <<cliVars, pollVars, zmqVars, smoVars, rftVars, steps>>

\* Step 3: after the last attempted step, emit Finish.
RunFinish ==
    /\ rpc = "next"
    /\ aborted \/ rk > Len(steps)
    /\ emitted' = Append(emitted, FinishMsg(Success))
    /\ rpc' = "done"
    /\ UNCHANGED <<cliVars, pollVars, zmqVars, smoVars, rftVars, steps, rk, nrun, aborted>>

NextRun ==
    \/ RunStart
    \/ RunSpawn
    \/ RunSample
    \/ RunExit
    \/ RunFinish

\* ------------------------------------------ EnsembleSmoother.run_experiment
\* Most realizations of the ensemble.
MaxRealizations == 2
\* line 58
total_iterations == 2

ActiveLists == UNION {[1..n -> BOOLEAN] : n \in 1..MaxRealizations}
ExperimentIds == {"e1", "e2"}
\* str(x) of an id
Str(x) == <<"str", x>>
\* fmt % n
Format(fmt, n) == <<fmt, n>>
target_ensemble_format == "ens_%d"

\* run_experiment is called on a model __init__ has built (lines 56-70).
SmootherInit ==
    /\ epc = "log_at_startup"
    /\ restart_arg \in BOOLEAN
    /\ self_restart = "unset"
    /\ random_seed \in {"None", "seed"}
    /\ active_realizations \in ActiveLists
    /\ env = {}
    /\ experiment = "-"
    /\ prior = NoEnsemble
    /\ posterior = NoEnsemble
    /\ stages = <<>>
    /\ eexc = "none"

InitSmoother ==
    CliInit("idle") /\ PollIdle /\ ZmqIdle /\ RunIdle /\ SmootherInit /\ RftIdle

\* Mutant: an exception of a stage is swallowed and the next stage is run.
AfterSwallowed(raises, next) == next

\* run_experiment has no try statement: an exception of a call leaves it.
After(raises, next) == IF raises THEN "raised" ELSE next

\* One call made by run_experiment, on ensemble ens (or NoEnsemble): it
\* returns, or raises.
Call(stage, ens, raises, next) ==
    /\ stages' = Append(stages, [stage |-> stage, ens |-> ens, ok |-> ~raises])
    /\ epc' = After(raises, next)
    /\ eexc' = IF raises THEN stage ELSE eexc

\* lines 76-77
LogAtStartup ==
    /\ epc = "log_at_startup"
    /\ \E raises \in BOOLEAN :
          /\ Call("log_at_startup", NoEnsemble, raises, "pre_experiment")
          /\ self_restart' = IF raises THEN self_restart
                             ELSE IF restart_arg THEN "True" ELSE "False"
    /\ UNCHANGED <<cliVars, pollVars, zmqVars, runVars, rftVars, restart_arg,
                   random_seed, active_realizations, env, experiment, prior,
                   posterior>>

\* lines 78-81
PreExperiment ==
    /\ epc = "pre_experiment"
    /\ \E raises \in BOOLEAN :
          Call("pre_experiment", NoEnsemble, raises, "create_experiment")
    /\ UNCHANGED <<cliVars, pollVars, zmqVars, runVars, rftVars, restart_arg,
                   self_restart, random_seed, active_realizations, env,
                   experiment, prior, posterior>>

\* lines 82-90
CreateExperiment ==
    /\ epc = "create_experiment"
    /\ \E raises \in BOOLEAN, id \in ExperimentIds :
          /\ Call("create_experiment", NoEnsemble, raises, "create_ensemble")
          /\ experiment' = IF raises THEN experiment ELSE id
          /\ env' = IF raises THEN env
                    ELSE env \cup {<<"_ERT_EXPERIMENT_ID", Str(id)>>}
    /\ UNCHANGED <<cliVars, pollVars, zmqVars, runVars, rftVars, restart_arg,
                   self_restart, random_seed, active_realizations, prior,
                   posterior>>

\* lines 91-96
CreateEnsemble ==
    /\ epc = "create_ensemble"
    /\ \E raises \in BOOLEAN :
          LET ens == [id |-> "prior", name |-> Format(target_ensemble_format, 0),
                      size |-> Len(active_realizations)]
          IN  /\ Call("create_ensemble", IF raises THEN NoEnsemble ELSE ens,
                      raises, "prior_args")
              /\ prior' = IF raises THEN prior ELSE ens
              /\ env' = IF raises THEN env
                        ELSE env \cup {<<"_ERT_ENSEMBLE_ID", Str(ens.id)>>}
    /\ UNCHANGED <<cliVars, pollVars, zmqVars, runVars, rftVars, restart_arg,
                   self_restart, random_seed, active_realizations, experiment,
                   posterior>>

\* lines 97-101
PriorArgs ==
    /\ epc = "prior_args"
    /\ \E raises \in BOOLEAN :
          Call("create_run_arguments", prior, raises, "sample_prior")
    /\ UNCHANGED <<cliVars, pollVars, zmqVars, runVars, rftVars, restart_arg,
                   self_restart, random_seed, active_realizations, env,
                   experiment, prior, posterior>>

\* lines 103-107
SamplePrior ==
    /\ epc = "sample_prior"
    /\ \E raises \in BOOLEAN :
          Call("sample_prior", prior, raises, "evaluate_prior")
    /\ UNCHANGED <<cliVars, pollVars, zmqVars, runVars, rftVars, restart_arg,
                   self_restart, random_seed, active_realizations, env,
                   experiment, prior, posterior>>

\* lines 109-113
EvaluatePrior ==
    /\ epc = "evaluate_prior"
    /\ \E raises \in BOOLEAN :
          Call("evaluate", prior, raises, "update")
    /\ UNCHANGED <<cliVars, pollVars, zmqVars, runVars, rftVars, restart_arg,
                   self_restart, random_seed, active_realizations, env,
                   experiment, prior, posterior>>

\* line 114
Update ==
    /\ epc = "update"
    /\ \E raises \in BOOLEAN :
          /\ Call("update", prior, raises, "posterior_args")
          /\ posterior' = IF raises THEN posterior
                          ELSE [id |-> "posterior",
                                name |-> Format(target_ensemble_format, 1),
                                size |-> prior.size]
    /\ UNCHANGED <<cliVars, pollVars, zmqVars, runVars, rftVars, restart_arg,
                   self_restart, random_seed, active_realizations, env,
                   experiment, prior>>

\* lines 116-120
PosteriorArgs ==
    /\ epc = "posterior_args"
    /\ \E raises \in BOOLEAN :
          Call("create_run_arguments", posterior, raises, "evaluate_posterior")
    /\ UNCHANGED <<cliVars, pollVars, zmqVars, runVars, rftVars, restart_arg,
                   self_restart, random_seed, active_realizations, env,
                   experiment, prior, posterior>>

\* lines 122-126
EvaluatePosterior ==
    /\ epc = "evaluate_posterior"
    /\ \E raises \in BOOLEAN :
          Call("evaluate", posterior, raises, "post_experiment")
    /\ UNCHANGED <<cliVars, pollVars, zmqVars, runVars, rftVars, restart_arg,
                   self_restart, random_seed, active_realizations, env,
                   experiment, prior, posterior>>

\* lines 127-134
PostExperiment ==
    /\ epc = "post_experiment"
    /\ \E raises \in BOOLEAN :
          Call("post_experiment", posterior, raises, "returned")
    /\ UNCHANGED <<cliVars, pollVars, zmqVars, runVars, rftVars, restart_arg,
                   self_restart, random_seed, active_realizations, env,
                   experiment, prior, posterior>>

NextSmoother ==
    \/ LogAtStartup
    \/ PreExperiment
    \/ CreateExperiment
    \/ CreateEnsemble
    \/ PriorArgs
    \/ SamplePrior
    \/ EvaluatePrior
    \/ Update
    \/ PosteriorArgs
    \/ EvaluatePosterior
    \/ PostExperiment

\* ---------------------------------------------- GenDataRFTCSVExportJob.run
\* Most cases named in case_list.
MaxCases == 2
\* Most observation keys of an experiment.
MaxObs == 2

CaseNames == {"c0", "c1"}
\* A case as written in case_list: a name, or a name with a blank before it.
RawCases == {"c0", "c1", " c1"}
\* case.strip()
Strip(raw) == IF raw = " c1" THEN "c1" ELSE raw

\* The text of case_list: raw cases with a "," between them.
RECURSIVE Join(_)
Join(parts) ==
    IF Len(parts) <= 1 THEN parts
    ELSE <<Head(parts), ",">> \o Join(Tail(parts))

CaseLists ==
    {NoCaseList} \cup
    {Join(q) : q \in UNION {[1..n -> RawCases] : n \in 1..MaxCases}}

\* case_list.split(",")
Split(text) == SelectSeq(text, LAMBDA t : t # ",")

ObsKeys == {"RFT_A", "RFT_B", "WOPR"}
\* key.startswith("RFT_")
StartsWithRFT(key) == key \in {"RFT_A", "RFT_B"}
\* obs_key.replace("RFT_", "")
WellOf(key) == IF key = "RFT_A" THEN "A" ELSE IF key = "RFT_B" THEN "B" ELSE key

\* The keys of a dict, in its order: no key twice.
ObsLists ==
    {q \in UNION {[1..n -> ObsKeys] : n \in 0..MaxObs} :
        \A a \in 1..Len(q) : \A b \in 1..Len(q) : q[a] = q[b] => a = b}

\* pd.concat of a list of frames: their rows, in order.
RECURSIVE Concat(_)
Concat(frames) ==
    IF frames = <<>> THEN <<>> ELSE Head(frames) \o Concat(Tail(frames))

\* lines 186-199: the frame of one realization, as its index columns.
RealizationFrame(iens, well, c) ==
    <<[Realization |-> iens, Well |-> well, Case |-> c]>>

RftInit ==
    /\ gpc = "split"
    /\ case_list \in CaseLists
    /\ observations \in [CaseNames -> ObsLists]
    /\ realizations \in {<<0>>, <<0, 1>>}
    /\ cases = <<>>
    /\ ci = 0
    /\ obs_keys = <<>>
    /\ oi = 0
    /\ case_data = <<>>
    /\ data_list = <<>>
    /\ wells = {}
    /\ csv_frame = <<>>
    /\ gexc = "none"

InitRft ==
    CliInit("idle") /\ PollIdle /\ ZmqIdle /\ RunIdle /\ SmootherIdle /\ RftInit

\* lines 123-132
SplitCases ==
    /\ gpc = "split"
    /\ cases' = IF case_list # NoCaseList THEN Split(case_list) ELSE <<>>
    /\ IF Len(cases') = 0
       THEN /\ gpc' = "raised"
            /\ gexc' = "No cases given to load from"
       ELSE /\ gpc' = "next_case"
            /\ UNCHANGED gexc
    /\ UNCHANGED <<cliVars, pollVars, zmqVars, runVars, smoVars, case_list,
                   observations, realizations, ci, obs_keys, oi, case_data,
                   data_list, wells, csv_frame>>

\* lines 133-155: the next case, or the end of the loop. The storage answers
\* for the ensemble: it exists and has data, or not.
NextCase ==
    /\ gpc = "next_case"
    /\ IF ci = Len(cases)
       THEN /\ gpc' = "write"
            /\ UNCHANGED <<ci, obs_keys, oi, case_data, gexc>>
       ELSE \E found \in {"ok", "missing", "no_data"} :
               LET c == Strip(cases[ci + 1])
                   keys == SelectSeq(observations[c], StartsWithRFT)
               IN  /\ ci' = ci + 1
                   /\ case_data' = <<>>
                   /\ IF found = "missing"
                      THEN /\ gpc' = "raised"
                           /\ gexc' = "does not exist"
                           /\ UNCHANGED <<obs_keys, oi>>
                      ELSE IF found = "no_data"
                      THEN /\ gpc' = "raised"
                           /\ gexc' = "does not have any data"
                           /\ UNCHANGED <<obs_keys, oi>>
                      ELSE IF Len(keys) = 0
                      THEN /\ gpc' = "raised"
                           /\ gexc' = "no RFT observations"
                           /\ obs_keys' = keys
                           /\ UNCHANGED oi
                      ELSE /\ gpc' = "next_obs"
                           /\ obs_keys' = keys
                           /\ oi' = 0
                           /\ UNCHANGED gexc
    /\ UNCHANGED <<cliVars, pollVars, zmqVars, runVars, smoVars, case_list,
                   observations, realizations, cases, data_list, wells,
                   csv_frame>>

\* lines 185-201: one frame per realization is appended to case_data.
RealizationFrames(well, c) ==
    [n \in 1..Len(realizations) |-> RealizationFrame(realizations[n], well, c)]

\* line 203, inside the loop over obs_keys: data.append(pd.concat(case_data))
AppendCaseData(dl, cd) == Append(dl, Concat(cd))

\* lines 157-203: the next observation key of the case, or the end of the
\* loop. The observation has one report step and its trajectory file loads,
\* or not.
NextObs ==
    /\ gpc = "next_obs"
    /\ IF oi = Len(obs_keys)
       THEN /\ gpc' = "next_case"
            /\ UNCHANGED <<oi, wells, case_data, data_list, gexc>>
       ELSE \E found \in {"ok", "report_steps", "trajectory"} :
               LET well == WellOf(obs_keys[oi + 1])
                   c == Strip(cases[ci])
               IN  /\ oi' = oi + 1
                   /\ wells' = wells \cup {well}
                   /\ IF found = "ok"
                      THEN /\ case_data' = case_data \o RealizationFrames(well, c)
                           /\ data_list' = AppendCaseData(data_list, case_data')
                           /\ UNCHANGED <<gpc, gexc>>
                      ELSE /\ gpc' = "raised"
                           /\ gexc' = found
                           /\ UNCHANGED <<case_data, data_list>>
    /\ UNCHANGED <<cliVars, pollVars, zmqVars, runVars, smoVars, case_list,
                   observations, realizations, cases, ci, obs_keys, csv_frame>>

\* lines 205-215: the rows are concatenated, indexed and written.
WriteCsv ==
    /\ gpc = "write"
    /\ csv_frame' = Concat(data_list)
    /\ gpc' = "done"
    /\ UNCHANGED <<cliVars, pollVars, zmqVars, runVars, smoVars, case_list,
                   observations, realizations, cases, ci, obs_keys, oi,
                   case_data, data_list, wells, gexc>>

NextRft ==
    \/ SplitCases
    \/ NextCase
    \/ NextObs
    \/ WriteCsv

\* ------------------------------------------------------- the specifications
MainStep ==
    \/ CheckRunPath
    \/ SetupLogging
    \/ ReadJobsFile
    \/ WaitForRetry
    \/ ReadJobsFileRetry
    \/ SetupReporters
    \/ InstallHandler
    \/ NextMsg
    \/ While
    \/ Report
    \/ ExceptDel
    \/ ExceptStop
    \/ InRemoveStop
    \/ ExceptLog
    \/ FinishCheck
    \/ StopReporters
    \/ InShutdownStop
    \/ Sigkill

Next ==
    \/ MainStep
    \/ SigTerm

\* A run of main during which SIGTERMs may arrive.
Spec == Init /\ [][Next]_vars

\* A run of main that receives no signal.
SpecNoSignal == Init /\ [][MainStep]_vars

\* A call of poll, with the driver putting events on the queue.
SpecPoll == InitPoll /\ [][NextPoll]_vars

\* A MockZMQServer handling the frames of its senders.
SpecZmq == InitZmq /\ [][NextZmq]_vars

\* One realization run of the Job Runner.
SpecRun == InitRun /\ [][NextRun]_vars

\* One call of EnsembleSmoother.run_experiment.
SpecSmoother == InitSmoother /\ [][NextSmoother]_vars

\* One call of GenDataRFTCSVExportJob.run.
SpecRft == InitRft /\ [][NextRft]_vars

\* ================================================================== claims
\* Helpers of the formulas below.
Count(log, x) == Cardinality({k \in 1..Len(log) : log[k] = x})
InDelivery ==
    pc \in {"while", "report", "except_del", "except_stop", "in_remove_stop",
            "except_log"}
\* Message number k has been offered to the whole reporter list.
Delivered(k) == k < mi \/ (k = mi /\ ~InDelivery)
RaisedBefore(r, k) == \E m \in 1..(k - 1) : <<r, m>> \in raisedLog
ActiveIds == {reporters[n].id : n \in 1..Len(reporters)}
EventsOf(seq) == SelectSeq(seq, LAMBDA r : r.kind = "Event")
StoppedAt(id, site) ==
    \E k \in 1..Len(stopLog) : stopLog[k] = [id |-> id, site |-> site]
opens == Len(attempts)
\* The process exit status Python gives sys.exit(arg): a string argument is
\* printed and the status is 1.
ExitCode == IF exit_arg = "none" THEN 0 ELSE 1

\* C1: in a run without signals, once report() of a reporter has raised on
\* message m that reporter gets no further report() call, for m or for any
\* later message, and every reporter whose report() has not raised before
\* message k has report() called exactly once for k, for every message k the
\* loop has finished with.
C1_FaultIsolation ==
    \A r \in created : \A k \in 1..mi :
        /\ Count(callLog, <<r, k>>) <= 1
        /\ RaisedBefore(r, k) => Count(callLog, <<r, k>>) = 0
        /\ (Delivered(k) /\ ~RaisedBefore(r, k)) => Count(callLog, <<r, k>>) = 1

\* A reporter raised on message m; a later message k has been delivered, to
\* the other reporter once and to the failed one not at all.
C1_Witness ==
    \E r \in created, q \in created, m \in 1..mi, k \in 1..mi :
        /\ r # q
        /\ <<r, m>> \in raisedLog
        /\ m < k
        /\ Delivered(k)
        /\ Count(callLog, <<q, k>>) = 1
        /\ Count(callLog, <<r, k>>) = 0

\* C2: in a run without signals the report() calls happen in message order
\* and, within one message, in reporter-list order without repetition, and
\* every reporter still in the active list has had exactly one report() call
\* for every message the loop has finished with.
C2_DeliveryOrder ==
    /\ \A a \in 1..Len(callLog) : \A b \in (a + 1)..Len(callLog) :
          \/ callLog[a][2] < callLog[b][2]
          \/ callLog[a][2] = callLog[b][2] /\ callLog[a][1] < callLog[b][1]
    /\ \A r \in ActiveIds : \A k \in 1..mi :
          Delivered(k) => Count(callLog, <<r, k>>) = 1

\* The first reporter of the list raised on a message and was removed, and
\* the second reporter then got that same message; a later message followed.
C2_Witness ==
    /\ Len(callLog) >= 3
    /\ callLog[1] = <<1, 1>>
    /\ callLog[2] = <<2, 1>>
    /\ callLog[3] = <<2, 2>>
    /\ <<1, 1>> \in raisedLog

\* C3: in a run without signals, a run in which some report() raised still
\* ends only after the Finish message has been offered to the whole active
\* list (main returns, or the fatal-Finish shutdown runs), and no exception
\* other than one from the jobs file or from the shutdown's stop() ends main.
C3_NoAbort ==
    /\ (pc \in Terminal /\ raisedLog # {}) =>
          /\ msg.kind = "Finish"
          /\ Delivered(mi)
          /\ pc = "crashed" => IsFatalFinish(msg) /\ excOrigin = "shutdown_stop"
    /\ pc = "crashed" => excOrigin \in {"jobs_file", "shutdown_stop"}
    /\ pc = "done" => exc = "none" /\ msg.kind = "Finish" /\ ~IsFatalFinish(msg)

\* Both reporters raised, the Event reporter's stop() raised during its
\* removal (no log record for it), a message was taken with the list empty,
\* and main returned.
C3_Witness ==
    /\ pc = "done"
    /\ reporters = <<>>
    /\ StoppedAt(2, "remove")
    /\ 2 \notin logged
    /\ 1 \in logged
    /\ \E k \in 1..mi : \A r \in created : Count(callLog, <<r, k>>) = 0

\* C4 (as claimed): once the loop has seen a Finish whose success flag is
\* false, the run ends with every Event reporter of the active list stopped
\* and the process group killed, and the kill never precedes the stops.
C4_FatalFinishStopsThenKills ==
    /\ (IsFatalFinish(msg) /\ pc \in Terminal) =>
          /\ pc = "killed"
          /\ killer = "finish"
    /\ pc = "killed" =>
          \A n \in 1..Len(reporters) :
              reporters[n].kind = "Event" => StoppedAt(reporters[n].id, "finish")

BeforeInstall ==
    {"check_run_path", "setup_logging", "read_jobs_file", "wait_for_retry",
     "read_jobs_file_retry", "setup_reporters", "install_handler"}

C6_ReporterSet ==
    /\ Len(EventsOf(reporters)) <= 1
    /\ Len(job) > 0 => \A n \in 1..Len(reporters) : reporters[n].kind = "Interactive"
    /\ \A n \in 1..Len(reporters) : \A m \in 1..Len(reporters) :
          reporters[n].id = reporters[m].id => n = m

\* An interactive run whose Interactive reporter was removed after a failure.
C6_Witness ==
    /\ Len(job) > 0
    /\ created # {}
    /\ reporters = <<>>
    /\ raisedLog # {}

\* C7: the jobs file is opened at most twice with at most one wait of the
\* fixed interval between the two; a second attempt is made only after an
\* absent file and one wait; a file found by the second attempt is returned;
\* a file absent again raises FileNotFoundError with no further attempt.
C7_BoundedRetry ==
    /\ opens <= 2
    /\ waits <= 1
    /\ slept = waits * JOBS_JSON_RETRY_TIME
    /\ opens = 2 => waits = 1 /\ attempts[1] = "absent"
    /\ (waits = 1 /\ pc # "read_jobs_file_retry") => opens = 2 \/ pc = "terminated"
    /\ (opens >= 1 /\ attempts[opens] = "ok") => jobs_data \in JobsFiles
    /\ attempts = <<"absent", "absent">> =>
          pc = "crashed" /\ exc = "FileNotFoundError"
    /\ exc = "FileNotFoundError" => attempts = <<"absent", "absent">>
    /\ (opens >= 1 /\ attempts[opens] = "malformed") =>
          pc = "crashed" /\ exc = "OSError"

\* The file was absent at the first attempt and present at the second.
C7_Witness ==
    /\ attempts = <<"absent", "ok">>
    /\ waits = 1
    /\ jobs_data \in JobsFiles

\* C8: with a run_path that does not exist main ends at line 115 with
\* sys.exit and a "No such directory" message (exit status 1), and nothing
\* of what follows line 115 has happened.
C8_MissingRunPath ==
    run_path = "missing" =>
        /\ pc \in {"check_run_path", "exited", "terminated"}
        /\ pc = "exited" =>
              /\ exc = "SystemExit"
              /\ exit_arg = "No such directory: run_path"
              /\ ExitCode # 0
        /\ cwd = "start"
        /\ ~logging
        /\ opens = 0
        /\ waits = 0
        /\ created = {}
        /\ ~handlerInstalled
        /\ ~runnerStarted
        /\ mi = 0

C8_Witness ==
    /\ run_path = "missing"
    /\ pc = "exited"
    /\ ExitCode = 1

\* The indices whose FinishedEvent has been taken from the queue.
FinishedTaken ==
    {taken[k].iens : k \in {n \in 1..Len(taken) : taken[n].type = "Finished"}}

\* C9: poll has returned normally only if a FinishedEvent has been taken from
\* the queue for every index of expected.
C9_ReturnsOnlyWhenAllFinished ==
    ppc = "returned" => expected \subseteq FinishedTaken

\* poll returned for two expected indices whose FinishedEvents came in the
\* opposite order of their indices, after a StartedEvent.
C9_Witness ==
    /\ ppc = "returned"
    /\ expected = {0, 1}
    /\ Len(taken) = 3
    /\ taken[1].type = "Started"
    /\ taken[2] = FinishedEvent(1, 0)
    /\ taken[3].type = "Finished" /\ taken[3].iens = 0

\* C10 (as claimed): poll returns once every expected index has had its
\* FinishedEvent, whatever else the stream holds: it is never back at the
\* queue, waiting for a further event, when a FinishedEvent has been taken
\* and handled for every index of expected and its exit test can no longer
\* succeed.
C10_ReturnsOnceAllFinished ==
    ~(/\ ppc = "get"
      /\ expected \subseteq FinishedTaken
      /\ completed # expected)

\* Support for C10: completed never shrinks and a normal return needs
\* completed = expected, so a state that violates C10_ReturnsOnceAllFinished
\* with completed not a subset of expected never leads to a return.
C10_CompletedGrows ==
    [][completed \subseteq completed' \/ ppc = "create_task"]_vars

C10_ReturnNeedsEquality ==
    ppc = "returned" => completed = expected

\* The callback invocations that a sequence of taken events calls for, given
\* which callbacks poll was handed.
HasCallback(e) ==
    \/ e.type = "Started" /\ started
    \/ e.type = "Finished" /\ finished
CallbacksFor(seq) ==
    LET sel == SelectSeq(seq, HasCallback)
    IN [k \in 1..Len(sel) |->
           [cb |-> IF sel[k].type = "Started" THEN "started" ELSE "finished",
            iens |-> sel[k].iens,
            returncode |-> sel[k].returncode]]
Front(seq) == SubSeq(seq, 1, Len(seq) - 1)

\* C11: the callback invocations are exactly those the taken events call
\* for, with the events' arguments and in the order the events were taken;
\* the callback of an event has been invoked before the next event is taken;
\* and every FinishedEvent taken and handled is counted in completed, with or
\* without a finished callback.
C11_CallbacksInDeliveryOrder ==
    /\ cbLog = CallbacksFor(IF ppc \in {"started_cb", "finished_cb"}
                            THEN Front(taken) ELSE taken)
    /\ (ppc = "get" /\ pexc = "none") => completed = FinishedTaken

\* Only a started callback was given; a StartedEvent and a FinishedEvent have
\* been taken: one callback invocation, and the finished index is counted.
C11_Witness ==
    /\ started /\ ~finished
    /\ ppc = "get"
    /\ Len(taken) = 2
    /\ taken[1].type = "Finished"
    /\ taken[2].type = "Started"
    /\ cbLog = <<[cb |-> "started", iens |-> taken[2].iens, returncode |-> -1]>>
    /\ completed = {taken[1].iens}

\* C12: whenever poll has returned or re-raised, poll_task.cancel() has been
\* called exactly once and driver.finish() awaited exactly once, the cancel
\* first; neither happens more than once in any state.
C12_CleanupOnce ==
    /\ cancels <= 1
    /\ finishes <= cancels
    /\ ppc \in {"returned", "raised"} =>
          /\ cancels = 1
          /\ finishes = 1
          /\ poll_task = "cancelled"

\* poll ended with the exception of a callback, after its cleanup.
C12_Witness ==
    /\ ppc = "raised"
    /\ pexc = "callback"
    /\ cancels = 1
    /\ finishes = 1
    /\ poll_task = "cancelled"

\* C13 (as claimed): the finished callback is invoked at most once for each
\* realisation index, whatever the event stream holds; stated for a poll that
\* is still waiting for an expected index to finish, so that no invocation
\* counted here is one made after poll should have returned.
C13_FinishedCallbackOncePerIndex ==
    ~(expected \subseteq completed) =>
        \A n \in Iens :
            Cardinality({k \in 1..Len(cbLog) :
                            cbLog[k].cb = "finished" /\ cbLog[k].iens = n}) <= 1

\* ---------------------------------------------------------------- C14, C15
\* The handler is past the ack step of the k-th frame it received.
PastAck(k) == k < Len(recvLog) \/ hpc # "ack"

\* The handler is past the record step of the k-th frame it received.
PastRecord(k) == k < Len(recvLog) \/ hpc \notin {"ack", "record"}

AcksFor(k) == {a \in 1..Len(ackLog) : ackLog[a].for = k}

\* C14: every Connect and every Disconnect frame received is answered with
\* exactly one Ack, addressed to the identity that sent it and sent before the
\* next frame is received, whatever the mode is and however it is changed;
\* no Connect or Disconnect frame is ever in the recorded messages.
C14_HandshakeAlwaysAcked ==
    /\ \A k \in 1..Len(recvLog) :
          (recvLog[k].frame \in Handshake /\ PastAck(k)) =>
              /\ Cardinality(AcksFor(k)) = 1
              /\ \A a \in AcksFor(k) : /\ ackLog[a].to = recvLog[k].dealer
                                       /\ ackLog[a].frame = ACK_MSG
    /\ \A m \in 1..Len(messages) :
          messages[m] \notin {Decode(CONNECT_MSG), Decode(DISCONNECT_MSG)}

\* A Connect is acked in mode 1, the mode is changed, and the Disconnect of
\* another sender is acked in mode 2.
C14_Witness ==
    /\ hpc = "recv"
    /\ Len(recvLog) = 2
    /\ recvLog[1].frame = CONNECT_MSG /\ recvLog[1].vAck = 1
    /\ recvLog[2].frame = DISCONNECT_MSG /\ recvLog[2].vAck = 2
    /\ recvLog[1].dealer # recvLog[2].dealer
    /\ Len(ackLog) = 2
    /\ ackLog[1].to = recvLog[1].dealer
    /\ ackLog[2].to = recvLog[2].dealer
    /\ messages = <<>>

\* The record step found this data frame while the mode was 0 or 2.
Kept(r) == r.frame \in DataFrames /\ r.vRec \in {0, 2}

\* C15: the recorded messages are the data frames received in mode 0 or 2,
\* decoded, once per receipt and in arrival order: a retransmitted copy is
\* recorded again.
C15_RecordedPerReceipt ==
    LET kept == SelectSeq(recvLog, Kept)
    IN  /\ Len(messages) = Len(kept)
        /\ \A k \in 1..Len(kept) : messages[k] = Decode(kept[k].frame)

\* A data frame that mode 2 leaves un-acked is received a second time from
\* the same sender and recorded both times.
C15_Witness ==
    /\ hpc = "recv"
    /\ Len(recvLog) = 2
    /\ recvLog[1].frame = Bytes("a") /\ recvLog[2] = recvLog[1]
    /\ recvLog[1].vAck = 2 /\ recvLog[1].vRec = 2
    /\ ackLog = <<>>
    /\ messages = <<Decode(Bytes("a")), Decode(Bytes("a"))>>

\* ---------------------------------------------------------------- C16, C17
Starts(k) == {m \in 1..Len(emitted) : emitted[m] = StartMsg(k)}
Exits(k) == {m \in 1..Len(emitted) :
                emitted[m].kind = "Exited" /\ emitted[m].step = k}
Finishes == {m \in 1..Len(emitted) : emitted[m].kind = "Finish"}

\* Step k is required and has exited non-zero.
RequiredFailed(k) ==
    /\ steps[k].required
    /\ \E m \in Exits(k) : emitted[m].code # 0

Executed(k) == Starts(k) # {} /\ (rk > k \/ rpc = "done")

\* C17: there is never more than one Finish and nothing follows it; a run that
\* has ended has exactly one, as its last message; every executed step has
\* exactly one Start and exactly one Exited, Start first, both before Finish.
C17_OneFinishLast ==
    /\ Cardinality(Finishes) <= 1
    /\ \A m \in Finishes : m = Len(emitted)
    /\ rpc = "done" <=> Cardinality(Finishes) = 1
    /\ \A k \in 1..Len(steps) :
          /\ Cardinality(Starts(k)) <= 1
          /\ Cardinality(Exits(k)) <= 1
          /\ Executed(k) =>
                /\ Cardinality(Starts(k)) = 1
                /\ Cardinality(Exits(k)) = 1
                /\ \A a \in Starts(k), b \in Exits(k) : a < b
                /\ \A b \in Exits(k), f \in Finishes : b < f

\* A non-required step that exits non-zero and a step that cannot be spawned
\* have both been executed, and the run has ended.
C17_Witness ==
    /\ rpc = "done"
    /\ Len(steps) = 2
    /\ ~steps[1].required /\ steps[1].outcome = "exit_nonzero"
    /\ steps[2].outcome = "spawn_error"
    /\ emitted = <<StartMsg(1), ExitedMsg(1, 1), StartMsg(2),
                   ExitedMsg(2, 127), FinishMsg(FALSE)>>

\* --------------------------------------------------------------------- C18
\* The except block of lines 153-161 is still at work on reporter r.
InExcept(r) ==
    /\ pc \in {"except_del", "except_stop", "in_remove_stop", "except_log"}
    /\ reporter.id = r

\* C18: in a run without signals, every reporter whose report() has raised
\* has a log record once the except block is done with it, whatever its kind
\* and whether or not its stop() raised during the removal.
C18_EveryFailureLogged ==
    \A e \in raisedLog : ~InExcept(e[1]) => e[1] \in logged

\* --------------------------------------------------------------------- C19
\* The ids of the Event sinks of the reporter list main built on lines
\* 128-135 (job and jobs_data do not change afterwards).
EventSinks ==
    IF created = {} THEN {}
    ELSE LET built == EventsOf(_setup_reporters(Len(job) > 0, jobs_data.ens_id,
                                                jobs_data.dispatch_url,
                                                jobs_data.ee_token,
                                                jobs_data.experiment_id))
         IN  {built[n].id : n \in 1..Len(built)}

Stopped(id) == \E k \in 1..Len(stopLog) : stopLog[k].id = id

\* C19: when the run has ended, by main returning after the last message or
\* by the kill of the process group, stop() has been called on every Event
\* sink main built.
C19_EventSinkAlwaysStopped ==
    pc \in {"done", "killed"} => \A id \in EventSinks : Stopped(id)

\* --------------------------------------------------------------------- C20
StopCalls(id) == Cardinality({k \in 1..Len(stopLog) : stopLog[k].id = id})

\* C20: however a SIGTERM handler invocation interleaves with the fatal-Finish
\* shutdown or with the removal of a failed reporter, a run that ends with the
\* kill of the process group has invoked stop() at most once on every Event
\* sink.
C20_StopAtMostOnce ==
    pc = "killed" => \A id \in EventSinks : StopCalls(id) <= 1

\* --------------------------------------------------------------------- C21
\* The shutdown of line 163 has begun: _stop_reporters is at work, has
\* stopped a reporter, or the kill has been done.
ShutdownBegun ==
    \/ pc \in {"stop_reporters", "in_shutdown_stop", "sigkill"}
    \/ killer = "finish"
    \/ \E k \in 1..Len(stopLog) : stopLog[k].site = "finish"

\* C21: in a run without signals, once the shutdown of line 163 has begun
\* the message is a Finish with success false and report() has been called
\* with it, once, on every reporter still in the list, the File sink included;
\* a Finish with success true starts no shutdown (no stop from
\* _stop_reporters, no kill) and the run ends with main returning normally.
C21_FinishDeliveredBeforeShutdown ==
    /\ ShutdownBegun =>
          /\ msg.kind = "Finish" /\ ~msg.success
          /\ \A r \in ActiveIds : /\ Count(callLog, <<r, mi>>) = 1
                                  /\ <<r, mi>> \notin raisedLog
    /\ (msg.kind = "Finish" /\ msg.success) =>
          /\ ~ShutdownBegun
          /\ pc \in Terminal => pc = "done" /\ exc = "none"
    /\ pc = "done" => msg.kind = "Finish" /\ msg.success

\* The File sink and the Event sink have both been given the failed Finish,
\* then the Event sink was stopped and the process group killed.
C21_Witness ==
    /\ pc = "killed"
    /\ killer = "finish"
    /\ msg.kind = "Finish" /\ ~msg.success
    /\ Len(reporters) = 2
    /\ reporters[1].kind = "File" /\ reporters[2].kind = "Event"
    /\ Count(callLog, <<reporters[1].id, mi>>) = 1
    /\ Count(callLog, <<reporters[2].id, mi>>) = 1
    /\ StoppedAt(reporters[2].id, "finish")

\* --------------------------------------------------------------------- C22
Kinds(seq) == [n \in 1..Len(seq) |-> seq[n].kind]

\* C22: the list _setup_reporters has just returned to main is [Interactive]
\* when step names were given, whatever the correlation fields are; without
\* step names it is the File sink followed by one Event sink (built from
\* dispatch_url and ee_token) exactly when ens_id is neither missing nor
\* empty and experiment_id is missing, and the File sink alone otherwise.
C22_SetupReportersResult ==
    pc = "install_handler" =>
        IF Len(job) > 0
        THEN Kinds(reporters) = <<"Interactive">>
        ELSE IF jobs_data.ens_id \notin {"None", ""} /\ jobs_data.experiment_id = "None"
             THEN /\ Kinds(reporters) = <<"File", "Event">>
                  /\ reporters[2].url = jobs_data.dispatch_url
                  /\ reporters[2].token = jobs_data.ee_token
             ELSE Kinds(reporters) = <<"File">>

\* No step names, ens_id set and experiment_id set too: the File sink alone.
C22_Witness ==
    /\ pc = "install_handler"
    /\ Len(job) = 0
    /\ jobs_data.ens_id = "v"
    /\ jobs_data.experiment_id = "v"
    /\ Kinds(reporters) = <<"File">>

DataFrameHandled ==
    /\ hpc \in {"recv", "cancelled"}
    /\ Len(recvLog) >= 1
    /\ recvLog[Len(recvLog)].frame \in DataFrames

\* The last frame received has been appended to the recorded messages: they
\* are one more than the earlier receipts account for, and end with it.
LastRecorded ==
    LET k == Len(recvLog)
        earlier == SelectSeq(SubSeq(recvLog, 1, k - 1), Kept)
    IN  /\ Len(messages) = Len(earlier) + 1
        /\ messages[Len(messages)] = Decode(recvLog[k].frame)

\* C24: a data frame that has been handled was treated as one of the three
\* modes prescribes, for a mode the server was in while handling it: acked
\* and recorded (mode 0), neither (mode 1), or recorded without an Ack
\* (mode 2); and no frame received has more than one Ack.
C24_DataFrameFollowsOneMode ==
    /\ DataFrameHandled =>
          LET k == Len(recvLog)
          IN  \E v \in {recvLog[k].vAck, recvLog[k].vRec} :
                  /\ (AcksFor(k) # {}) <=> (v = 0)
                  /\ LastRecorded <=> (v # 1)
    /\ \A k \in 1..Len(recvLog) : Cardinality(AcksFor(k)) <= 1

\* --------------------------------------------------------------------- C25
\* The indices with a FinishedEvent among the first n events taken.
FinishedIn(n) ==
    {taken[k].iens : k \in {j \in 1..n : taken[j].type = "Finished"}}

\* The n-th event taken is the FinishedEvent that completes the expected set.
Completes(n) ==
    /\ taken[n].type = "Finished"
    /\ taken[n].iens \in expected
    /\ expected \subseteq FinishedIn(n)
    /\ ~(expected \subseteq FinishedIn(n - 1))

\* C25: every event put on the queue is either taken, once, or still on the
\* queue, and no event is taken after the FinishedEvent that completes the
\* expected set: what was put behind it stays on the queue.
C25_NothingTakenAfterCompletion ==
    /\ Len(taken) + Len(event_queue) = produced
    /\ \A n \in 1..Len(taken) : Completes(n) => n = Len(taken)

\* --------------------------------------------------------------------- C26
\* The calls of run_experiment, in the order of its text.
StageOrder ==
    <<"log_at_startup", "pre_experiment", "create_experiment",
      "create_ensemble", "create_run_arguments", "sample_prior", "evaluate",
      "update", "create_run_arguments", "evaluate", "post_experiment">>

\* The place of the update among them.
UpdateAt == CHOOSE k \in 1..Len(StageOrder) : StageOrder[k] = "update"

StageCount(name) ==
    Cardinality({k \in 1..Len(stages) : stages[k].stage = name})

\* C26: the calls made so far are the first calls of the fixed order, each
\* made once the one before it has returned; a call that raised is the last
\* one made and run_experiment has ended with its exception; a run that
\* returned has made them all, with two evaluations (total_iterations), the
\* first on the prior and the second on the posterior, and one update between
\* them, from the prior.
C26_StagesInFixedOrder ==
    /\ Len(stages) <= Len(StageOrder)
    /\ \A k \in 1..Len(stages) :
          /\ stages[k].stage = StageOrder[k]
          /\ ~stages[k].ok => k = Len(stages) /\ epc = "raised"
    /\ epc = "raised" =>
          /\ Len(stages) >= 1
          /\ ~stages[Len(stages)].ok
          /\ eexc = stages[Len(stages)].stage
    /\ epc = "returned" =>
          /\ Len(stages) = Len(StageOrder)
          /\ StageCount("evaluate") = total_iterations
          /\ StageCount("update") = 1
          /\ StageCount("pre_experiment") = 1
          /\ StageCount("post_experiment") = 1
    /\ \A k \in 1..Len(stages) :
          /\ (stages[k].stage = "evaluate" /\ k < UpdateAt) =>
                /\ stages[k].ens = prior
                /\ prior.name = Format(target_ensemble_format, 0)
                /\ prior.size = Len(active_realizations)
          /\ (stages[k].stage = "evaluate" /\ k > UpdateAt) =>
                /\ stages[k].ens = posterior
                /\ posterior # NoEnsemble
                /\ posterior # prior
          /\ stages[k].stage = "update" => stages[k].ens = prior /\ prior # NoEnsemble

\* The update raised after the prior evaluation: no posterior evaluation and
\* no post-experiment workflows were run.
C26_Witness ==
    /\ epc = "raised"
    /\ eexc = "update"
    /\ Len(stages) = UpdateAt
    /\ StageCount("evaluate") = 1
    /\ StageCount("post_experiment") = 0
    /\ posterior = NoEnsemble

\* --------------------------------------------------------------------- C27
\* The cases the call was given, stripped.
GivenCases == {Strip(cases[k]) : k \in 1..Len(cases)}

\* The RFT_* observation keys of case c.
RftKeys(c) == SelectSeq(observations[c], StartsWithRFT)

\* The (realization, well, case) combinations there are to export.
Combinations ==
    UNION {{[Realization |-> realizations[n], Well |-> WellOf(RftKeys(c)[k]),
             Case |-> c] : n \in 1..Len(realizations), k \in 1..Len(RftKeys(c))} :
           c \in GivenCases}

\* C27: when run has written the CSV for a case list that names no case
\* twice, the rows hold every (realization, well, case) combination, each
\* once.
C27_EachCombinationOnce ==
    (gpc = "done" /\ Cardinality(GivenCases) = Len(cases)) =>
        /\ {csv_frame[k] : k \in 1..Len(csv_frame)} = Combinations
        /\ \A a \in 1..Len(csv_frame) : \A b \in 1..Len(csv_frame) :
              csv_frame[a] = csv_frame[b] => a = b

====
